---- MODULE Spec2Model ----
(***************************************************************************)
(* Model of cnc.py: the measurement pipeline main() runs over the entities *)
(* of a DXF drawing (area, census, thickness, width, cut length, weight).  *)
(*                                                                         *)
(* Python floats are modelled as binary floating-point numbers             *)
(*     value = m * 2^e,  |m| < 2^MantissaBits,                             *)
(* every arithmetic operation rounding its exact result to the nearest     *)
(* representable value, ties to even, as IEEE-754 does.  The exponent is   *)
(* unbounded: overflow, underflow and NaN do not occur in the model; the   *)
(* two infinities exist only as the seeds of the extent trackers.          *)
(***************************************************************************)
EXTENDS Integers, Sequences, FiniteSets

\* ------------------------------------------------------------------ bounds
\* Bits of a float's significand (53 in CPython, scaled down here).
MantissaBits == 8
\* Longest entity sequence of a drawing.
MaxLen == 3

\* ------------------------------------------------------------------ floats
Pow2(n) == 2 ^ n

AbsInt(n) == IF n < 0 THEN -n ELSE n

MinInt(a, b) == IF a < b THEN a ELSE b

\* 0.0
FZero == [inf |-> 0, m |-> 0, e |-> 0]

\* float('inf') and float('-inf')
FInf == [inf |-> 1, m |-> 0, e |-> 0]

FNegInf == [inf |-> -1, m |-> 0, e |-> 0]

\* The canonical form of m * 2^e: m odd, or zero.
RECURSIVE Norm(_, _)
Norm(m, e) ==
    IF m = 0 THEN FZero
    ELSE IF m % 2 = 0 THEN Norm(m \div 2, e + 1)
    ELSE [inf |-> 0, m |-> m, e |-> e]

FNeg(x) == [inf |-> -x.inf, m |-> -x.m, e |-> x.e]

\* (a / d) * 2^e for a > 0, d > 0, rounded to MantissaBits bits, ties to even.
RECURSIVE RoundMag(_, _, _)
RoundMag(a, d, e) ==
    IF a < Pow2(MantissaBits - 1) * d THEN RoundMag(2 * a, d, e - 1)
    ELSE IF a >= Pow2(MantissaBits) * d THEN RoundMag(a, 2 * d, e + 1)
    ELSE LET q == a \div d
             r == a % d
             up == (2 * r > d) \/ (2 * r = d /\ q % 2 = 1)
         IN  Norm(IF up THEN q + 1 ELSE q, e)

\* (n / d) * 2^e, d > 0, as the nearest float.
Round(n, d, e) ==
    IF n = 0 THEN FZero
    ELSE IF d = 1 /\ AbsInt(n) < Pow2(MantissaBits) THEN Norm(n, e)
    ELSE IF n > 0 THEN RoundMag(n, d, e)
    ELSE FNeg(RoundMag(-n, d, e))

\* A float literal with an integer value.
F(n) == Round(n, 1, 0)

\* x + y.  An operand more than 2*MantissaBits+1 binary places below the other
\* is under a quarter of its last place and leaves it unchanged.
FAdd(x, y) ==
    IF x.m = 0 THEN y
    ELSE IF y.m = 0 THEN x
    ELSE IF x.e - y.e > 2 * MantissaBits + 1 THEN x
    ELSE IF y.e - x.e > 2 * MantissaBits + 1 THEN y
    ELSE LET e0 == MinInt(x.e, y.e)
         IN  Round(x.m * Pow2(x.e - e0) + y.m * Pow2(y.e - e0), 1, e0)

FSub(x, y) == FAdd(x, FNeg(y))

FMul(x, y) == Round(x.m * y.m, 1, x.e + y.e)

\* x / y, y nonzero.
FDiv(x, y) ==
    IF y.m > 0 THEN Round(x.m, y.m, x.e - y.e)
    ELSE Round(-x.m, -y.m, x.e - y.e)

\* x < y.  Rounding a difference never changes its sign.
FLt(x, y) ==
    IF x.inf # 0 \/ y.inf # 0 THEN x.inf < y.inf
    ELSE FSub(x, y).m < 0

\* The largest s in lo..hi with s*s <= n (lo*lo <= n < (hi+1)*(hi+1)).
RECURSIVE ISqrt(_, _, _)
ISqrt(n, lo, hi) ==
    IF lo = hi THEN lo
    ELSE LET mid == (lo + hi + 1) \div 2
         IN  IF mid * mid <= n THEN ISqrt(n, mid, hi) ELSE ISqrt(n, lo, mid - 1)

\* sqrt(m * 2^e), m > 0, e even, correctly rounded: m is scaled by powers of 4
\* until its root has more than MantissaBits bits; an inexact root is marked
\* by a trailing half, which is never a tie of the rounding.
RECURSIVE SqrtMag(_, _)
SqrtMag(m, e) ==
    IF m < Pow2(2 * MantissaBits) THEN SqrtMag(4 * m, e - 2)
    ELSE LET s == ISqrt(m, 0, Pow2(MantissaBits + 2))
         IN  Round(2 * s + (IF s * s = m THEN 0 ELSE 1), 2, e \div 2)

\* math.sqrt(x), x >= 0.
FSqrt(x) ==
    IF x.m = 0 THEN FZero
    ELSE IF x.e % 2 = 0 THEN SqrtMag(x.m, x.e)
    ELSE SqrtMag(2 * x.m, x.e - 1)

\* math.pi: the float nearest to pi (355/113 agrees with pi to 7 digits).
math_pi == Round(355, 113, 0)

\* math.radians(x) == x * (pi / 180)
math_radians(x) == FMul(x, FDiv(math_pi, F(180)))

\* ---------------------------------------------------------------- entities
\* The entities ezdxf hands out: a type tag and the attributes the program
\* reads.  `missing` names the attributes whose access raises (a malformed
\* entity); a vertex carries x, y and the length the cut-length pass reads.
Pt(x, y) == [x |-> F(x), y |-> F(y)]

Vtx(x, y, length) == [x |-> F(x), y |-> F(y), length |-> F(length)]

\* A coordinate so large that adding 1 to it rounds.
Big == Norm(1, MantissaBits)

Entity(type) ==
    [type |-> type, missing |-> {}, start |-> Pt(0, 0), end |-> Pt(0, 0),
     vertices |-> <<>>, area |-> FZero, center |-> Pt(0, 0), radius |-> FZero,
     start_angle |-> FZero, end_angle |-> FZero]

Line345 == [Entity("LINE") EXCEPT !.start = Pt(0, 0), !.end = Pt(3, 4)]

LwPolyEmpty == [Entity("LWPOLYLINE") EXCEPT !.area = F(1)]

PolyBig ==
    [Entity("POLYLINE") EXCEPT !.area = Big,
        !.vertices = <<Vtx(1, 1, 3), Vtx(4, 1, 2)>>]

CircleFar == [Entity("CIRCLE") EXCEPT !.center = [x |-> Big, y |-> FZero], !.radius = F(1)]

ArcBack ==
    [Entity("ARC") EXCEPT !.center = Pt(1, 1), !.radius = F(2),
        !.start_angle = F(90), !.end_angle = F(0)]

ArcNegRadius ==
    [Entity("ARC") EXCEPT !.center = Pt(0, 0), !.radius = F(-1),
        !.start_angle = F(0), !.end_angle = F(90)]

LineNoStart == [Line345 EXCEPT !.missing = {"start"}]

ArcNoRadius == [ArcBack EXCEPT !.missing = {"radius"}]

\* A polyline whose vertices have no length attribute.
PolyNoLength == [PolyBig EXCEPT !.missing = {"length"}]

\* An entity type the program has no branch for.
Unrecognized == {Entity("SPLINE")}

Catalogue ==
    {Line345, LwPolyEmpty, PolyBig, CircleFar, ArcBack, ArcNegRadius,
     Entity("TEXT"), Entity("MTEXT"), LineNoStart, ArcNoRadius, PolyNoLength} \cup Unrecognized

SeqsUpTo(S, n) == UNION {[1..k -> S] : k \in 0..n}

\* The drawings (model spaces) the program is run on.
Drawings == SeqsUpTo(Catalogue, MaxLen)

\* entity.dxf.<attr> / entity.<attr> raises when the attribute is missing.
Lacks(entity, attrs) == entity.missing \cap attrs # {}

\* ----------------------------------------------------------- ReadDxfFile
\* str.lower() on the characters file names are built from here.
Lower(c) ==
    CASE c = "D" -> "d" [] c = "X" -> "x" [] c = "F" -> "f" [] c = "A" -> "a"
      [] c = "T" -> "t" [] OTHER -> c

LowerStr(s) == [i \in 1..Len(s) |-> Lower(s[i])]

EndsWith(s, suffix) ==
    /\ Len(s) >= Len(suffix)
    /\ SubSeq(s, Len(s) - Len(suffix) + 1, Len(s)) = suffix

\* sys.argv, file names as character sequences.
ArgvSet ==
    { << <<"c", "n", "c">> >>,
      << <<"c", "n", "c">>, <<"a", ".", "t", "x", "t">> >>,
      << <<"c", "n", "c">>, <<"A", ".", "D", "X", "F">> >> }

\* ReadDxfFile() leaves through sys.exit(1): "usage", "format", or not: "ok".
ReadDxfFile(args) ==
    IF Len(args) < 2 THEN "usage"
    ELSE IF ~EndsWith(LowerStr(args[2]), <<".", "d", "x", "f">>) THEN "format"
    ELSE "ok"

\* ------------------------------------------------------------------- area
AreaRaises(entity) ==
    CASE entity.type \in {"LWPOLYLINE", "POLYLINE"} -> Lacks(entity, {"area"})
      [] entity.type = "CIRCLE" -> Lacks(entity, {"radius"})
      [] entity.type = "ARC" -> Lacks(entity, {"radius", "end_angle", "start_angle"})
      [] OTHER -> FALSE

calculate_area_of_all_entities(entity) ==
    IF entity.type = "LWPOLYLINE" THEN entity.area
    ELSE IF entity.type = "POLYLINE" THEN entity.area
    ELSE IF entity.type = "CIRCLE" THEN
        FMul(math_pi, FMul(entity.radius, entity.radius))
    ELSE IF entity.type = "ARC" THEN
        LET angle == FSub(entity.end_angle, entity.start_angle)
        IN  FMul(FDiv(angle, F(360)), FMul(math_pi, FMul(entity.radius, entity.radius)))
    ELSE FZero

\* Mutant: the loop stops one entity early.
RECURSIVE AreaLoop_SkipsLast(_, _)
AreaLoop_SkipsLast(entities, total_area) ==
    IF Len(entities) <= 1 THEN total_area
    ELSE AreaLoop_SkipsLast(Tail(entities),
             FAdd(total_area, calculate_area_of_all_entities(Head(entities))))

\* The loop of calculate_total_area from the running total on.
RECURSIVE AreaLoop(_, _)
AreaLoop(entities, total_area) ==
    IF entities = <<>> THEN total_area
    ELSE AreaLoop(Tail(entities),
                  FAdd(total_area, calculate_area_of_all_entities(Head(entities))))

calculate_total_area(entities) == AreaLoop(entities, FZero)

TotalAreaRaises(entities) == \E i \in 1..Len(entities) : AreaRaises(entities[i])

\* ----------------------------------------------------------------- census
QuantityKeys == {"LINE", "LWPOLYLINE", "POLYLINE", "CIRCLE", "ARC", "TEXT", "MTEXT"}

\* dict insertion order, the order main() prints in.
QuantityOrder == <<"LINE", "LWPOLYLINE", "POLYLINE", "CIRCLE", "ARC", "TEXT", "MTEXT">>

\* Mutant: no membership test, a type not in the dict gets a key of its own.
RECURSIVE QuantityLoop_CountsAnyType(_, _)
QuantityLoop_CountsAnyType(entities, quantity) ==
    IF entities = <<>> THEN quantity
    ELSE LET entity_type == Head(entities).type
         IN  QuantityLoop_CountsAnyType(Tail(entities),
                 [k \in DOMAIN quantity \cup {entity_type} |->
                     (IF k \in DOMAIN quantity THEN quantity[k] ELSE 0)
                       + (IF k = entity_type THEN 1 ELSE 0)])

RECURSIVE QuantityLoop(_, _)
QuantityLoop(entities, quantity) ==
    IF entities = <<>> THEN quantity
    ELSE LET entity_type == Head(entities).type
         IN  QuantityLoop(Tail(entities),
                 IF entity_type \in DOMAIN quantity
                 THEN [quantity EXCEPT ![entity_type] = @ + 1]
                 ELSE quantity)

calculate_quantity_of_entities(entities) ==
    QuantityLoop(entities, [k \in QuantityKeys |-> 0])

\* ---------------------------------------------------------------- extents
\* Python's min(a, b) and max(a, b): the first argument unless the second is
\* strictly smaller (larger).
PyMin(a, b) == IF FLt(b, a) THEN b ELSE a

PyMax(a, b) == IF FLt(a, b) THEN b ELSE a

\* The polyline branch: every vertex updates the tracker.
RECURSIVE VertexLoop(_, _, _)
VertexLoop(vertices, t, axis) ==
    IF vertices = <<>> THEN t
    ELSE VertexLoop(Tail(vertices),
                    [min |-> PyMin(t.min, Head(vertices)[axis]),
                     max |-> PyMax(t.max, Head(vertices)[axis])],
                    axis)

\* Mutant: the CIRCLE branch takes center + radius for the minimum too.
ExtentStep_CirclePlusTwice(t, entity, axis) ==
    IF entity.type = "LINE" THEN
        [min |-> PyMin(PyMin(t.min, entity.start[axis]), entity.end[axis]),
         max |-> PyMax(PyMax(t.max, entity.start[axis]), entity.end[axis])]
    ELSE IF entity.type \in {"LWPOLYLINE", "POLYLINE"} THEN
        VertexLoop(entity.vertices, t, axis)
    ELSE IF entity.type = "CIRCLE" THEN
        [min |-> PyMin(t.min, FAdd(entity.center[axis], entity.radius)),
         max |-> PyMax(t.max, FAdd(entity.center[axis], entity.radius))]
    ELSE IF entity.type = "ARC" THEN
        [min |-> PyMin(t.min, FSub(entity.center[axis], entity.radius)),
         max |-> PyMax(t.max, FAdd(entity.center[axis], entity.radius))]
    ELSE t

\* Mutant: an entity of any other type is measured like a LINE.
ExtentStep_ElseAsLine(t, entity, axis) ==
    IF entity.type \in {"LWPOLYLINE", "POLYLINE"} THEN
        VertexLoop(entity.vertices, t, axis)
    ELSE IF entity.type \in {"CIRCLE", "ARC"} THEN
        [min |-> PyMin(t.min, FSub(entity.center[axis], entity.radius)),
         max |-> PyMax(t.max, FAdd(entity.center[axis], entity.radius))]
    ELSE IF entity.type \in {"TEXT", "MTEXT"} THEN t
    ELSE
        [min |-> PyMin(PyMin(t.min, entity.start[axis]), entity.end[axis]),
         max |-> PyMax(PyMax(t.max, entity.start[axis]), entity.end[axis])]

\* Mutant: an ARC whose end_angle is below its start_angle is skipped.
ExtentStep_ArcByAngles(t, entity, axis) ==
    IF entity.type = "LINE" THEN
        [min |-> PyMin(PyMin(t.min, entity.start[axis]), entity.end[axis]),
         max |-> PyMax(PyMax(t.max, entity.start[axis]), entity.end[axis])]
    ELSE IF entity.type \in {"LWPOLYLINE", "POLYLINE"} THEN
        VertexLoop(entity.vertices, t, axis)
    ELSE IF entity.type = "CIRCLE"
              \/ (entity.type = "ARC" /\ ~FLt(entity.end_angle, entity.start_angle)) THEN
        [min |-> PyMin(t.min, FSub(entity.center[axis], entity.radius)),
         max |-> PyMax(t.max, FAdd(entity.center[axis], entity.radius))]
    ELSE t

\* One iteration of the entity loop of calculate_object_thickness (axis "y")
\* and calculate_object_width (axis "x") on the tracker t = (min, max).
ExtentStep(t, entity, axis) ==
    IF entity.type = "LINE" THEN
        [min |-> PyMin(PyMin(t.min, entity.start[axis]), entity.end[axis]),
         max |-> PyMax(PyMax(t.max, entity.start[axis]), entity.end[axis])]
    ELSE IF entity.type \in {"LWPOLYLINE", "POLYLINE"} THEN
        VertexLoop(entity.vertices, t, axis)
    ELSE IF entity.type = "CIRCLE" THEN
        [min |-> PyMin(t.min, FSub(entity.center[axis], entity.radius)),
         max |-> PyMax(t.max, FAdd(entity.center[axis], entity.radius))]
    ELSE IF entity.type = "ARC" THEN
        [min |-> PyMin(t.min, FSub(entity.center[axis], entity.radius)),
         max |-> PyMax(t.max, FAdd(entity.center[axis], entity.radius))]
    ELSE t

ExtentRaises(entity) ==
    CASE entity.type = "LINE" -> Lacks(entity, {"start", "end"})
      [] entity.type \in {"LWPOLYLINE", "POLYLINE"} -> Lacks(entity, {"vertices"})
      [] entity.type \in {"CIRCLE", "ARC"} -> Lacks(entity, {"center", "radius"})
      [] OTHER -> FALSE

RECURSIVE ExtentLoop(_, _, _)
ExtentLoop(entities, t, axis) ==
    IF entities = <<>> THEN t
    ELSE ExtentLoop(Tail(entities), ExtentStep(t, Head(entities), axis), axis)

\* The tracker when the entity loop ends.
Tracker(entities, axis) == ExtentLoop(entities, [min |-> FInf, max |-> FNegInf], axis)

\* Mutant: no test for the untouched seeds.
ExtentOf_NoSentinel(t) == FSub(t.max, t.min)

\* The tail of both functions: the sentinel test, then max - min.
ExtentOf(t) ==
    IF t.min = FInf \/ t.max = FNegInf THEN FZero
    ELSE FSub(t.max, t.min)

calculate_object_thickness(entities) == ExtentOf(Tracker(entities, "y"))

calculate_object_width(entities) == ExtentOf(Tracker(entities, "x"))

BoundsRaise(entities) == \E i \in 1..Len(entities) : ExtentRaises(entities[i])

\* ------------------------------------------------------------- cut length
\* modelspace().query(type): the entities of that type, in drawing order.
Query(entities, type) == SelectSeq(entities, LAMBDA entity : entity.type = type)

\* start.distance(end)
Distance(p, q) ==
    LET dx == FSub(q.x, p.x)
        dy == FSub(q.y, p.y)
    IN  FSqrt(FAdd(FMul(dx, dx), FMul(dy, dy)))

\* sum(segment.length for segment in polyline.vertices()), from the int 0.
RECURSIVE SumLengths(_, _)
SumLengths(vertices, acc) ==
    IF vertices = <<>> THEN acc
    ELSE SumLengths(Tail(vertices), FAdd(acc, Head(vertices).length))

\* The length one ARC adds.
ArcLength(arc) ==
    LET radius == arc.radius
        angle == FSub(arc.end_angle, arc.start_angle)
        angle_rad == math_radians(angle)
    IN  FMul(radius, angle_rad)

\* The length one CIRCLE adds.
Circumference(circle) == FMul(FMul(F(2), math_pi), circle.radius)

\* What an entity adds to total_length in the loop that queries its type.
CutContribution(entity) ==
    CASE entity.type = "LINE" -> Distance(entity.start, entity.end)
      [] entity.type = "POLYLINE" -> SumLengths(entity.vertices, FZero)
      [] entity.type = "ARC" -> ArcLength(entity)
      [] entity.type = "CIRCLE" -> Circumference(entity)

RECURSIVE CutLoop(_, _)
CutLoop(queried, total_length) ==
    IF queried = <<>> THEN total_length
    ELSE CutLoop(Tail(queried), FAdd(total_length, CutContribution(Head(queried))))

\* Mutant: a fifth loop adds the LWPOLYLINE entities as the POLYLINE loop does.
calculate_machine_cut_length_WithLwPolyline(entities) ==
    CutLoop(Query(entities, "CIRCLE"),
        CutLoop(Query(entities, "ARC"),
            CutLoop(Query(entities, "POLYLINE"),
                CutLoop(Query(entities, "LINE"),
                    CutLoop([i \in 1..Len(Query(entities, "LWPOLYLINE")) |->
                                [Query(entities, "LWPOLYLINE")[i] EXCEPT !.type = "POLYLINE"]],
                            FZero)))))

calculate_machine_cut_length(entities) ==
    CutLoop(Query(entities, "CIRCLE"),
        CutLoop(Query(entities, "ARC"),
            CutLoop(Query(entities, "POLYLINE"),
                CutLoop(Query(entities, "LINE"), FZero))))

CutRaises(entity) ==
    CASE entity.type = "LINE" -> Lacks(entity, {"start", "end"})
      [] entity.type = "POLYLINE" ->
            \/ Lacks(entity, {"vertices"})
            \/ entity.vertices # <<>> /\ Lacks(entity, {"length"})
      [] entity.type = "ARC" -> Lacks(entity, {"radius", "end_angle", "start_angle"})
      [] entity.type = "CIRCLE" -> Lacks(entity, {"radius"})
      [] OTHER -> FALSE

CutLengthRaises(entities) == \E i \in 1..Len(entities) : CutRaises(entities[i])

\* ----------------------------------------------------------------- weight
\* Mutant: the weight_per_meter of the function body (2.5) is applied.
calculate_weight_PerMeter(cut_length, width, thickness) ==
    FMul(FMul(FMul(cut_length, Round(5, 2, 0)), width), thickness)

calculate_weight(cut_length, width, thickness) ==
    FMul(FMul(cut_length, width), thickness)

\* ------------------------------------------------------------------- main
\* A local of main() not assigned yet.
None == [none |-> TRUE]

VARIABLES
    argv,            \* sys.argv
    msp,             \* the entities ezdxf reads from the file
    pc,              \* the statement of main() to run next
    total_area, quantity, calc_thickness, calc_width, cut_length, weight,
    stdout           \* the lines printed so far

vars == <<argv, msp, pc, total_area, quantity, calc_thickness, calc_width,
          cut_length, weight, stdout>>

locals == <<total_area, quantity, calc_thickness, calc_width, cut_length, weight>>

Init ==
    /\ argv \in ArgvSet
    /\ msp \in Drawings
    /\ ReadDxfFile(argv) # "ok" => msp = <<>>
    /\ pc = "ReadDxfFile"
    /\ total_area = None
    /\ quantity = None
    /\ calc_thickness = None
    /\ calc_width = None
    /\ cut_length = None
    /\ weight = None
    /\ stdout = <<>>

\* A printed line: what it shows, and the values formatted into it.
Out(kind, key, value) == [kind |-> kind, key |-> key, value |-> value]

\* dxf_file = ReadDxfFile()
DoReadDxfFile ==
    /\ pc = "ReadDxfFile"
    /\ LET r == ReadDxfFile(argv)
       IN  /\ pc' = IF r = "ok" THEN "total_area" ELSE "exit"
           /\ stdout' = IF r = "ok" THEN stdout ELSE Append(stdout, Out(r, "", None))
    /\ UNCHANGED <<argv, msp, locals>>

\* total_area = calculate_total_area(dxf_file)
DoTotalArea ==
    /\ pc = "total_area"
    /\ IF TotalAreaRaises(msp)
       THEN pc' = "raised" /\ UNCHANGED total_area
       ELSE pc' = "quantity" /\ total_area' = calculate_total_area(msp)
    /\ UNCHANGED <<argv, msp, quantity, calc_thickness, calc_width, cut_length,
                   weight, stdout>>

\* quantity = calculate_quantity_of_entities(dxf_file)
DoQuantity ==
    /\ pc = "quantity"
    /\ pc' = "print_quantity"
    /\ quantity' = calculate_quantity_of_entities(msp)
    /\ UNCHANGED <<argv, msp, total_area, calc_thickness, calc_width, cut_length,
                   weight, stdout>>

\* The header and the loop over quantity.items().
DoPrintQuantity ==
    /\ pc = "print_quantity"
    /\ pc' = "thickness"
    /\ stdout' = stdout \o <<Out("quantity_header", "", None)>>
                   \o [i \in 1..Len(QuantityOrder) |->
                          Out("quantity", QuantityOrder[i], quantity[QuantityOrder[i]])]
    /\ UNCHANGED <<argv, msp, locals>>

\* calc_thickness = calculate_object_thickness(dxf_file)
DoThickness ==
    /\ pc = "thickness"
    /\ IF BoundsRaise(msp)
       THEN pc' = "raised" /\ UNCHANGED calc_thickness
       ELSE pc' = "width" /\ calc_thickness' = calculate_object_thickness(msp)
    /\ UNCHANGED <<argv, msp, total_area, quantity, calc_width, cut_length,
                   weight, stdout>>

\* calc_width = calculate_object_width(dxf_file)
DoWidth ==
    /\ pc = "width"
    /\ IF BoundsRaise(msp)
       THEN pc' = "raised" /\ UNCHANGED calc_width
       ELSE pc' = "cut_length" /\ calc_width' = calculate_object_width(msp)
    /\ UNCHANGED <<argv, msp, total_area, quantity, calc_thickness, cut_length,
                   weight, stdout>>

\* cut_length = calculate_machine_cut_length(dxf_file)
DoCutLength ==
    /\ pc = "cut_length"
    /\ IF CutLengthRaises(msp)
       THEN pc' = "raised" /\ UNCHANGED cut_length
       ELSE pc' = "weight" /\ cut_length' = calculate_machine_cut_length(msp)
    /\ UNCHANGED <<argv, msp, total_area, quantity, calc_thickness, calc_width,
                   weight, stdout>>

\* weight = calculate_weight(cut_length * 1000, calc_width, calc_thickness)
DoWeight ==
    /\ pc = "weight"
    /\ pc' = "print_results"
    /\ weight' = calculate_weight(FMul(cut_length, F(1000)), calc_width, calc_thickness)
    /\ UNCHANGED <<argv, msp, total_area, quantity, calc_thickness, calc_width,
                   cut_length, stdout>>

\* The five closing print() calls; the area is formatted with :.2f.
DoPrintResults ==
    /\ pc = "print_results"
    /\ pc' = "done"
    /\ stdout' = stdout \o
          <<Out("total_area", ".2f", total_area), Out("thickness", "", calc_thickness),
            Out("width", "", calc_width), Out("cut_length", "", cut_length),
            Out("weight", "", weight)>>
    /\ UNCHANGED <<argv, msp, locals>>

Next ==
    \/ DoReadDxfFile
    \/ DoTotalArea
    \/ DoQuantity
    \/ DoPrintQuantity
    \/ DoThickness
    \/ DoWidth
    \/ DoCutLength
    \/ DoWeight
    \/ DoPrintResults

Spec == Init /\ [][Next]_vars

\* ------------------------------------------------------- claim vocabulary
\* The kinds of printed line that show an aggregate result.
AggregateKinds ==
    {"quantity_header", "quantity", "total_area", "thickness", "width",
     "cut_length", "weight"}

FAbs(x) == IF x.m < 0 THEN FNeg(x) ELSE x

\* The x + y of exact arithmetic is a float: the addition does not round.
ExactAdd(x, y) ==
    \/ x.m = 0
    \/ y.m = 0
    \/ /\ AbsInt(x.e - y.e) <= 2 * MantissaBits + 1
       /\ LET e0 == MinInt(x.e, y.e)
              n == x.m * Pow2(x.e - e0) + y.m * Pow2(y.e - e0)
          IN  AbsInt(Norm(n, e0).m) < Pow2(MantissaBits)

InsertAt(s, i, entity) == SubSeq(s, 1, i) \o <<entity>> \o SubSeq(s, i + 1, Len(s))

IndexPermutations(n) == {f \in [1..n -> 1..n] : \A i, j \in 1..n : f[i] = f[j] => i = j}

Permuted(s, f) == [i \in 1..Len(s) |-> s[f[i]]]

Reversed(s) == [i \in 1..Len(s) |-> s[Len(s) + 1 - i]]

CountOf(s, type) == Cardinality({i \in 1..Len(s) : s[i].type = type})

\* No addition of the area loop rounds.
RECURSIVE ExactAreaFold(_, _)
ExactAreaFold(entities, total) ==
    \/ entities = <<>>
    \/ LET area == calculate_area_of_all_entities(Head(entities))
       IN  /\ ExactAdd(total, area)
           /\ ExactAreaFold(Tail(entities), FAdd(total, area))

\* The coordinates an entity has on an axis.
Coords(entity, axis) ==
    CASE entity.type = "LINE" -> {entity.start[axis], entity.end[axis]}
      [] entity.type \in {"LWPOLYLINE", "POLYLINE"} ->
            {entity.vertices[i][axis] : i \in 1..Len(entity.vertices)}
      [] entity.type \in {"CIRCLE", "ARC"} ->
            {FSub(entity.center[axis], entity.radius),
             FAdd(entity.center[axis], entity.radius)}
      [] OTHER -> {}

AllCoords(entities, axis) == UNION {Coords(entities[i], axis) : i \in 1..Len(entities)}

Least(S) == CHOOSE x \in S : \A y \in S : ~FLt(y, x)

Greatest(S) == CHOOSE x \in S : \A y \in S : ~FLt(x, y)

NonNegativeRadii(entities) ==
    \A i \in 1..Len(entities) :
        entities[i].type \in {"CIRCLE", "ARC"} => entities[i].radius.m >= 0

\* What C4 says of one axis, given the extent the program returned.
ExtentAsClaimed(entities, axis, extent) ==
    /\ AllCoords(entities, axis) = {} => extent = FZero
    /\ AllCoords(entities, axis) # {} =>
          /\ \A k \in 1..Len(entities) :
                LET t == Tracker(SubSeq(entities, 1, k), axis)
                IN  Coords(entities[k], axis) # {} => ~FLt(t.max, t.min)
          /\ extent = FSub(Greatest(AllCoords(entities, axis)),
                           Least(AllCoords(entities, axis)))
          /\ extent.inf = 0
          /\ extent.m >= 0

\* An LWPOLYLINE with area and vertices, and the annotations.
LwPolySquare ==
    [Entity("LWPOLYLINE") EXCEPT !.area = F(16),
        !.vertices = <<Vtx(0, 0, 4), Vtx(4, 0, 4), Vtx(4, 4, 4), Vtx(0, 4, 4)>>]

NoLengthProbes == {LwPolySquare, LwPolyEmpty, Entity("TEXT"), Entity("MTEXT")}

\* A drawing of one complete Circle or Arc of radius >= 0.
SingleRound ==
    /\ Len(msp) = 1
    /\ msp[1].type \in {"CIRCLE", "ARC"}
    /\ msp[1].missing = {}
    /\ msp[1].radius.m >= 0

\* ----------------------------------------------------------------- claims
\* C1 (as claimed): when a metric computation of main() aborts with a fatal
\* input error, no aggregate result (census line, area, thickness, width,
\* cut length, weight) has been printed in that run.
C1_NothingExposedOnAbort ==
    pc = "raised" => \A i \in 1..Len(stdout) : stdout[i].kind \notin AggregateKinds

\* C2: the census has exactly the seven fixed keys, each counting the
\* entities carrying that type tag whatever their order; other types add no
\* key and no count, so the counts sum to the number of recognized entities.
C2_CensusCounts ==
    quantity # None =>
        /\ DOMAIN quantity = QuantityKeys
        /\ \A k \in QuantityKeys : quantity[k] = CountOf(msp, k)
        /\ quantity["LINE"] + quantity["LWPOLYLINE"] + quantity["POLYLINE"]
             + quantity["CIRCLE"] + quantity["ARC"] + quantity["TEXT"] + quantity["MTEXT"]
           = Cardinality({i \in 1..Len(msp) : msp[i].type \in QuantityKeys})

C2_Witness ==
    /\ pc = "print_quantity"
    /\ Len(msp) = 3
    /\ msp[2] \in Unrecognized
    /\ quantity["LINE"] = 2

\* C3: for an empty drawing, area, width, thickness and cut length are 0.0,
\* every census key is present with count 0, and the weight is 0.
C3_EmptyDrawing ==
    (msp = <<>> /\ pc = "done") =>
        /\ total_area = FZero
        /\ calc_width = FZero
        /\ calc_thickness = FZero
        /\ cut_length = FZero
        /\ DOMAIN quantity = QuantityKeys
        /\ \A k \in QuantityKeys : quantity[k] = 0
        /\ weight = FZero

C3_Witness ==
    /\ msp = <<>>
    /\ pc = "done"
    /\ Len(stdout) = 13

C5_ArcLengthAbsolute ==
    pc = "weight" =>
        \A i \in 1..Len(msp) :
            msp[i].type = "ARC" =>
                /\ ArcLength(msp[i]) =
                      FMul(msp[i].radius,
                           FAbs(math_radians(FSub(msp[i].end_angle, msp[i].start_angle))))
                /\ msp[i].radius.m >= 0 =>
                      /\ ArcLength(msp[i]).m >= 0
                      /\ ~FLt(cut_length,
                              calculate_machine_cut_length(
                                  SubSeq(msp, 1, i - 1) \o SubSeq(msp, i + 1, Len(msp))))

\* C6 (as claimed): the total area of a drawing equals the total area of its
\* reversal and of every permutation of it.
C6_AreaAnyOrder ==
    pc = "quantity" =>
        /\ total_area = calculate_total_area(Reversed(msp))
        /\ \A f \in IndexPermutations(Len(msp)) :
              total_area = calculate_total_area(Permuted(msp, f))

\* C6 (amended): the total area is the floating-point sum accumulated in
\* entity order; it equals the total of the reversal and of any permutation
\* when the drawing has at most two entities or when no addition rounds in
\* either order.
C6_AreaOrderWhenExact ==
    pc = "quantity" =>
        \A f \in IndexPermutations(Len(msp)) :
            (\/ Len(msp) <= 2
             \/ ExactAreaFold(msp, FZero) /\ ExactAreaFold(Permuted(msp, f), FZero))
            => total_area = calculate_total_area(Permuted(msp, f))

C6_Witness ==
    /\ pc = "quantity"
    /\ Len(msp) = 3
    /\ msp[1].type = "LWPOLYLINE"
    /\ msp[2].type = "ARC"
    /\ msp[3].type = "LWPOLYLINE"
    /\ ExactAreaFold(msp, FZero)
    /\ ExactAreaFold(Reversed(msp), FZero)
    /\ total_area # FZero

C8_UnrecognizedIgnored ==
    pc = "done" =>
        \A i \in 0..Len(msp) : \A u \in Unrecognized :
            LET with == InsertAt(msp, i, u)
            IN  /\ ~TotalAreaRaises(with)
                /\ ~BoundsRaise(with)
                /\ ~CutLengthRaises(with)
                /\ calculate_total_area(with) = total_area
                /\ calculate_quantity_of_entities(with) = quantity
                /\ calculate_object_thickness(with) = calc_thickness
                /\ calculate_object_width(with) = calc_width
                /\ calculate_machine_cut_length(with) = cut_length

C8_Witness ==
    /\ pc = "done"
    /\ Len(msp) = 3
    /\ msp[1].type = "CIRCLE"
    /\ msp[2].type = "LINE"
    /\ msp[3].type = "POLYLINE"

\* C9: the cut length is the sum of the Line, Polyline, Arc and Circle
\* contributions only: an LwPolyline, Text or MText adds nothing to it at any
\* position, though an LwPolyline adds its area to the total area and its
\* vertices to the extents.
C9_CutLengthTypes ==
    pc = "weight" =>
        /\ cut_length =
              calculate_machine_cut_length(
                  SelectSeq(msp, LAMBDA entity :
                      entity.type \in {"LINE", "POLYLINE", "ARC", "CIRCLE"}))
        /\ \A i \in 0..Len(msp) : \A p \in NoLengthProbes :
              calculate_machine_cut_length(InsertAt(msp, i, p)) = cut_length
        /\ calculate_total_area(Append(msp, LwPolySquare)) = FAdd(total_area, F(16))
        /\ AllCoords(msp, "x") = {} =>
              calculate_object_width(Append(msp, LwPolySquare)) = F(4)
        /\ AllCoords(msp, "y") = {} =>
              calculate_object_thickness(Append(msp, LwPolySquare)) = F(4)

C9_Witness ==
    /\ pc = "weight"
    /\ Len(msp) = 3
    /\ msp[1].type = "LWPOLYLINE"
    /\ msp[2].type = "POLYLINE"
    /\ msp[3].type = "TEXT"
    /\ cut_length = F(5)

\* C10 (as claimed): a drawing of a single Circle or Arc of radius r >= 0
\* has width == thickness == 2r.
C10_SingleRoundIsTwoR ==
    (pc = "cut_length" /\ SingleRound) =>
        /\ calc_width = FMul(F(2), msp[1].radius)
        /\ calc_thickness = FMul(F(2), msp[1].radius)

\* C10 (amended): on each axis a Circle and an Arc contribute exactly
\* center - radius and center + radius, whatever the Arc's angles; a single
\* Circle or Arc of radius r >= 0 has extent (center + r) - (center - r) on
\* the axis, which is 2r when neither center + r nor center - r rounds.
C10_SingleRoundExtent ==
    (pc = "cut_length" /\ SingleRound) =>
        LET c == msp[1].center
            r == msp[1].radius
        IN  /\ Tracker(msp, "x") = [min |-> FSub(c.x, r), max |-> FAdd(c.x, r)]
            /\ Tracker(msp, "y") = [min |-> FSub(c.y, r), max |-> FAdd(c.y, r)]
            /\ calc_width = FSub(FAdd(c.x, r), FSub(c.x, r))
            /\ calc_thickness = FSub(FAdd(c.y, r), FSub(c.y, r))
            /\ (ExactAdd(c.x, r) /\ ExactAdd(c.x, FNeg(r))) =>
                  calc_width = FMul(F(2), r)
            /\ (ExactAdd(c.y, r) /\ ExactAdd(c.y, FNeg(r))) =>
                  calc_thickness = FMul(F(2), r)

C10_Witness ==
    /\ pc = "cut_length"
    /\ SingleRound
    /\ msp[1].type = "ARC"
    /\ FLt(msp[1].end_angle, msp[1].start_angle)
    /\ calc_width = F(4)
    /\ calc_thickness = F(4)
====
